---- MODULE Spec2Model ----
(***************************************************************************)
(* The tunnel animation-and-segment-rendering engine of pytunnel           *)
(* (tunnelz/tunnel.py): the Tunnel beam, its TunnelUI setters and the      *)
(* per-frame display / draw_segments_with_animations algorithm.            *)
(*                                                                         *)
(* Numbers.  Python floats are modelled as integers counting units of     *)
(* 1/Unit (Unit = 10^FloatDigits), so 1.0 is Unit and 0.25 is Unit \div 4. *)
(* The rotation angle is computed with rounding float arithmetic (a        *)
(* decimal floating point format of FloatDigits significant digits); every *)
(* other quantity is kept exact, as a rational where needed.               *)
(***************************************************************************)
EXTENDS Integers, Sequences, FiniteSets, TLC

(* ------------------------------ bounds -------------------------------- *)

\* significant decimal digits of the modelled float format
FloatDigits == 2
\* set_segs draws the segment count from 0..MaxSegs
MaxSegs == 9
\* positions of an animation channel's waveform cycle
NPhase == 3
\* nudges may carry an offset at most this many nudge steps from the centre
MaxNudges == 3
\* Tunnel objects that may exist (the constructed one and its copies)
MaxTunnels == 2
\* Animation objects that may exist
MaxAnims == 8
\* attributes of the tunnel and of its channels that may differ from their
\* constructed values at one time, where a specification limits this
MaxEdited == 1
\* copies of the mixer's layers that may be made (looks taken and installed)
MaxCopies == 2

(* ------------------------- integer helpers ---------------------------- *)

Abs(x) == IF x < 0 THEN -x ELSE x

Max(a, b) == IF a >= b THEN a ELSE b

Min(a, b) == IF a <= b THEN a ELSE b

RECURSIVE Pow10(_)
Pow10(n) == IF n = 0 THEN 1 ELSE 10 * Pow10(n - 1)

RECURSIVE NDigits(_)
\* number of decimal digits of n >= 0 (0 has none)
NDigits(n) == IF n = 0 THEN 0 ELSE 1 + NDigits(n \div 10)

\* the integer nearest to n/d (d > 0), ties to even
RoundHalfEven(n, d) ==
    LET a == Abs(n)
        q == a \div d
        r == a % d
        up == (2 * r > d) \/ (2 * r = d /\ q % 2 = 1)
        m == IF up THEN q + 1 ELSE q
    IN  IF n < 0 THEN -m ELSE m

\* Python int() of the rational n/d (d > 0): truncation toward zero
PyInt(n, d) == IF n < 0 THEN -((-n) \div d) ELSE n \div d

\* Python 2 round() of the rational n/d (d > 0): nearest, ties away from zero
PyRound(n, d) ==
    LET a == Abs(n)
        m == (2 * a + d) \div (2 * d)
    IN  IF n < 0 THEN -m ELSE m

(* --------------------------- float format ----------------------------- *)

\* one unit of the float scale: the float 1.0
Unit == Pow10(FloatDigits)

\* the representable float nearest to n (round to FloatDigits significant digits)
FRound(n) ==
    LET a == Abs(n)
        ulp == IF a < Unit THEN 1 ELSE Pow10(NDigits(a) - FloatDigits)
        m == RoundHalfEven(a, ulp) * ulp
    IN  IF n < 0 THEN -m ELSE m

\* float addition
FAdd(a, b) == FRound(a + b)

\* float multiplication
FMul(a, b) == FRound(RoundHalfEven(a * b, Unit))

\* C fmod: exact, the result has the sign of x
fmod(x, y) == IF x < 0 THEN -((-x) % Abs(y)) ELSE x % Abs(y)

\* Python's float x % y: fmod, then y is added (a rounding float addition)
\* when the remainder is non-zero and its sign differs from y's
float_rem(x, y) ==
    LET mod == fmod(x, y)
    IN  IF mod # 0 /\ ((y < 0) # (mod < 0)) THEN FAdd(mod, y) ELSE mod

(* ---------------------------- constants ------------------------------- *)

\* 2*pi as a float
TWOPI == FRound((62832 * Unit) \div 10000)

\* scale overall radius
MAX_RAD_MULT == 2

MAX_ELLIPSE_ASPECT == 2

\* animation slots of a tunnel
n_anim == 4

\* tunnel rotates this many rad/frame: 0.155
rot_speed_scale == (155 * Unit) \div 1000

\* blacking is an int on range [-16, 16]
MaxBlacking == 16

(* geometry: the screen configuration (tunnelz/geometry.py) *)
x_size == 9
y_size == 6
x_center == 4
y_center == 3
max_radius == 3
thickness_scale == 2
max_x_offset == 3
max_y_offset == 2
x_nudge == 2
y_nudge == 1

(* -------------------------- AnimationTarget --------------------------- *)

\* the routing targets display and draw_segments_with_animations dispatch on
RecognizedTargets ==
    {"Rotation", "Ellipse", "Thickness", "Radius", "Color", "ColorSpread",
     "ColorPeriodicity", "ColorSaturation", "PositionX", "PositionY"}

\* a target value outside the dispatch chains
UnrecognizedTarget == "Unrecognized"

(* ------------------------------ Animation ----------------------------- *)

\* Animation(): a channel as constructed; it contributes nothing until its
\* weight is raised and does not move until its speed is
Animation == [target |-> "Radius", speed |-> 0, weight |-> 0, phase |-> 0]

\* the channel's waveform over its cycle: zero, positive, zero, negative
wave(p) ==
    IF p = 0 \/ 2 * p = NPhase THEN 0 ELSE IF 2 * p < NPhase THEN 1 ELSE -1

\* Animation.update_state: advance the channel by one frame
update_state(anim) == [anim EXCEPT !.phase = (anim.phase + anim.speed) % NPhase]

\* Animation.get_value(0): the channel's scalar sample (a whole number here)
get_value(anim) == anim.weight * wave(anim.phase)

\* Animation.get_value_vector(rel_angle)[i]: one sample per relative angle;
\* the channel's period count is left at 0, so every angle gets the scalar sample
get_value_vector(anim, i) == get_value(anim)

(* ------------------------------- state -------------------------------- *)

VARIABLES
    tunnels,    \* the Tunnel objects, by object id (1 is the constructed one)
    heap,       \* the Animation objects, by object id
    dc_agg,     \* the draw commands the aggregator received in the render call
    frame,      \* the render call that has just run, NoFrame between frames
    log,        \* configuration errors reported (logged or flagged)
    layers,     \* the mixer layer objects, by object id
    mixer,      \* Mixer.layers: the ids of the layer objects of the mixer
    looks       \* the Look objects, by object id: each one's list of layer ids

vars == <<tunnels, heap, dc_agg, frame, log, layers, mixer, looks>>

\* the mixer, its layers and the looks
mixing == <<layers, mixer, looks>>

\* Tunnel.__init__, with slot k holding Animation object first + k - 1
Tunnel(first) ==
    [rot_speed |-> 0,
     thickness |-> Unit \div 4,
     radius |-> Unit \div 2,
     ellipse_aspect |-> Unit \div 2,
     col_center |-> 0,
     col_width |-> 0,
     col_spread |-> 0,
     col_sat |-> 0,
     segs |-> 126,
     blacking |-> 2,
     curr_angle |-> 0,
     x_offset |-> 0,
     y_offset |-> 0,
     anims |-> [k \in 1..n_anim |-> first + k - 1],
     curr_anim |-> 1]

\* no render call has run since the last change made between frames
NoFrame ==
    [beam |-> 0, look |-> 0, level_scale |-> 0, as_mask |-> FALSE,
     raised |-> "none", calls |-> <<>>]

\* the tunnel stands alone: no mixer holds it and no look has been taken
NoMixer == layers = <<>> /\ mixer = <<>> /\ looks = <<>>

Init ==
    /\ tunnels = <<Tunnel(1)>>
    /\ heap = [k \in 1..n_anim |-> Animation]
    /\ dc_agg = <<>>
    /\ frame = NoFrame
    /\ log = <<>>
    /\ NoMixer

\* a change made between frames: the next render call gets a fresh aggregator
BetweenFrames == frame' = NoFrame /\ dc_agg' = <<>>

(* --------------------------- Tunnel.display --------------------------- *)

\* clamp without the lower bound
clamp_upper_only(v, m) == Min(v, m)

\* min(max(v, -m), m): keep an offset within the set bounds of the screen
clamp(v, m) == Min(Max(v, -m), m)

\* the offsets display stores back before anything else
clamp_offsets(t) ==
    [t EXCEPT !.x_offset = clamp(t.x_offset, max_x_offset),
              !.y_offset = clamp(t.y_offset, max_y_offset)]

\* the calls display's loop makes on the channel in one slot
update_calls(a, target) ==
    IF target \in {"Rotation", "Ellipse"}
    THEN <<(<<"update_state", a>>), (<<"get_value", a>>)>>
    ELSE <<(<<"update_state", a>>)>>

RECURSIVE update_channels_once(_, _, _)
\* update_channels looping over the distinct channels: a slot whose channel an
\* earlier slot holds is passed over
update_channels_once(slots, k, acc) ==
    IF k > Len(slots) THEN acc
    ELSE IF \E j \in 1..(k - 1) : slots[j] = slots[k]
    THEN update_channels_once(slots, k + 1, acc)
    ELSE LET a == slots[k]
             h == [acc.heap EXCEPT ![a] = update_state(@)]
             target == h[a].target
             v == get_value(h[a])
         IN  update_channels_once(slots, k + 1,
                 [heap |-> h,
                  rot_adjust |->
                      IF target = "Rotation" THEN FAdd(acc.rot_adjust, v * Unit)
                      ELSE acc.rot_adjust,
                  ellipse_adjust |->
                      IF target = "Ellipse" THEN acc.ellipse_adjust + v * Unit
                      ELSE acc.ellipse_adjust,
                  calls |-> acc.calls \o update_calls(a, target)])

RECURSIVE update_channels(_, _, _)
\* display's loop over self.anims from slot k on: each slot's channel is
\* advanced, then sampled when it targets the rotation or the ellipse aspect.
\* acc carries the Animation objects, the two adjustments and the calls made.
update_channels(slots, k, acc) ==
    IF k > Len(slots) THEN acc
    ELSE LET a == slots[k]
             h == [acc.heap EXCEPT ![a] = update_state(@)]
             target == h[a].target
             v == get_value(h[a])
         IN  update_channels(slots, k + 1,
                 [heap |-> h,
                  rot_adjust |->
                      IF target = "Rotation" THEN FAdd(acc.rot_adjust, v * Unit)
                      ELSE acc.rot_adjust,
                  ellipse_adjust |->
                      IF target = "Ellipse" THEN acc.ellipse_adjust + v * Unit
                      ELSE acc.ellipse_adjust,
                  calls |-> acc.calls \o update_calls(a, target)])

\* calculate the rotation, wrap to 0 to 2pi
rotate(t, rot_adjust) ==
    [t EXCEPT !.curr_angle =
        float_rem(
            FAdd(t.curr_angle, FMul(FAdd(t.rot_speed, rot_adjust), rot_speed_scale)),
            TWOPI)]

(* ------------------ Tunnel.draw_segments_with_animations -------------- *)

\* draw_segment without the rule that removes the "all segments blacked" bug
draw_segment_all_blacked(self_blacking, i) ==
    IF self_blacking >= 0
    THEN i % Abs(Max(self_blacking, 1)) = 0
    ELSE i % Abs(self_blacking) # 0

\* whether segment number i is drawn, by the blacking parameter
draw_segment(self_blacking, i) ==
    LET blacking == IF self_blacking = -1 THEN 0 ELSE self_blacking
    IN  IF blacking >= 0
        THEN i % Abs(Max(self_blacking, 1)) = 0
        ELSE i % Abs(blacking) # 0

\* seg_num without the fancy indexing: every segment number is kept
seg_num_unfiltered(n_segs, self_blacking) == [k \in 1..n_segs |-> k - 1]

\* seg_num[draw_segment]: the numbers of the segments drawn, ascending
seg_num(n_segs, self_blacking) ==
    LET all == [k \in 1..n_segs |-> k - 1]
        keep(i) == draw_segment(self_blacking, i)
    IN  SelectSeq(all, keep)

RECURSIVE adjust(_, _, _, _)
\* the sum of the samples of the channels in slots k.. that target `target`
adjust(slots, h, target, k) ==
    IF k > Len(slots) THEN 0
    ELSE (IF h[slots[k]].target = target THEN get_value(h[slots[k]]) ELSE 0)
         + adjust(slots, h, target, k + 1)

RECURSIVE draw_calls(_, _, _)
\* the calls the second loop over self.anims makes, from slot k on
draw_calls(slots, h, k) ==
    IF k > Len(slots) THEN <<>>
    ELSE LET a == slots[k]
             target == h[a].target
             call == IF target \in {"Thickness", "Radius", "ColorSaturation"}
                     THEN <<(<<"get_value_vector", a>>)>>
                     ELSE IF target \in {"Color", "ColorSpread", "ColorPeriodicity",
                                         "PositionX", "PositionY"}
                     THEN <<(<<"get_value", a>>)>>
                     ELSE <<>>
         IN  call \o draw_calls(slots, h, k + 1)

\* center with the adjustment floored instead of truncated
center_floor(c, offset, adjust_num) == c + offset + (adjust_num \div 127)

\* geometry.<c>_center + self.<c>_offset + int(<c>_adjust), the adjustment
\* being the rational adjust_num/127
center(c, offset, adjust_num) == c + offset + PyInt(adjust_num, 127)

\* mask_arc with the caller's level instead of full intensity
mask_arc_scaled(level_scale, strk, cx, cy, r_x, r_y, start, stop) ==
    [level |-> level_scale, stroke |-> strk, hue |-> 0, sat |-> 0, val |-> 0,
     x_center |-> cx, y_center |-> cy, rad_x |-> r_x, rad_y |-> r_y,
     start_angle |-> start, stop_angle |-> stop]

\* the arc drawn for a segment of a masking layer
mask_arc(level_scale, strk, cx, cy, r_x, r_y, start, stop) ==
    [level |-> 255, stroke |-> strk, hue |-> 0, sat |-> 0, val |-> 0,
     x_center |-> cx, y_center |-> cy, rad_x |-> r_x, rad_y |-> r_y,
     start_angle |-> start, stop_angle |-> stop]

\* the arc drawn for a segment of a colored layer
color_arc(level_scale, strk, h, s, cx, cy, r_x, r_y, start, stop) ==
    [level |-> level_scale, stroke |-> strk, hue |-> h, sat |-> s, val |-> 255,
     x_center |-> cx, y_center |-> cy, rad_x |-> r_x, rad_y |-> r_y,
     start_angle |-> start, stop_angle |-> stop]

\* Vectorized draw of all of the segments: the exception raised (or "none"),
\* the arcs handed to dc_agg.draw_arc in order, and the calls made on channels.
\* rad_x2 and rad_y2 are twice the base radii, thickness the stroke in pixels
\* (float scale); angles are rationals num/den on the float scale.
draw_segments_with_animations(t, h, rad_x2, rad_y2, n_segs, as_mask, level_scale, thickness) ==
    LET segs == seg_num(n_segs, t.blacking)
        sum(target) == adjust(t.anims, h, target, 1)
        x_adjust == sum("PositionX") * (x_size \div 2)
        y_adjust == sum("PositionY") * (y_size \div 2)
        strk == [num |-> Abs(thickness * (127 + sum("Thickness"))),
                 den |-> 127 * Unit]
        cx == center(x_center, t.x_offset, x_adjust)
        cy == center(y_center, t.y_offset, y_adjust)
        r_x == Abs(rad_x2 + 2 * Unit * sum("Radius")) \div (2 * Unit)
        r_y == Abs(rad_y2 + 2 * Unit * sum("Radius")) \div (2 * Unit)
        start(i) == [num |-> t.curr_angle * t.segs + TWOPI * i, den |-> t.segs]
        stop(i) == [num |-> t.curr_angle * t.segs + TWOPI * (i + 1), den |-> t.segs]
        \* the operands of hue = (center + width * sawtooth_vector(rel_angle *
        \* period / 16, 0.0)) % 256, the waveform primitive being external
        hue(i) == [center |-> 255 * t.col_center + Unit * sum("Color"),
                   width |-> 127 * t.col_width + Unit * sum("ColorSpread"),
                   period |-> 256 * t.col_spread + Unit * sum("ColorPeriodicity"),
                   seg |-> i]
        sat == 255 * t.col_sat + Unit * sum("ColorSaturation")
        arc(i) == IF as_mask
                  THEN mask_arc(level_scale, strk, cx, cy, r_x, r_y, start(i), stop(i))
                  ELSE color_arc(level_scale, strk, hue(i), sat, cx, cy, r_x, r_y,
                                 start(i), stop(i))
    IN  IF t.segs = 0
        THEN \* rot_interval = TWOPI / self.segs
             [raised |-> "ZeroDivisionError", arcs |-> <<>>, calls |-> <<>>]
        ELSE [raised |-> "none",
              arcs |-> [k \in 1..Len(segs) |-> arc(segs[k])],
              calls |-> draw_calls(t.anims, h, 1)]

\* display with the scaled thickness stored back into self.thickness
display_storing_thickness(t, h, level_scale, as_mask) ==
    LET t1 == clamp_offsets(t)
        ch == update_channels(t1.anims, 1,
                  [heap |-> h, rot_adjust |-> 0, ellipse_adjust |-> 0, calls |-> <<>>])
        t2 == rotate(t1, ch.rot_adjust)
        radius == PyInt(MAX_RAD_MULT * max_radius * t2.radius, Unit)
        thickness == t2.thickness * thickness_scale
        rad_x2 == 2 * radius * MAX_ELLIPSE_ASPECT * (t2.ellipse_aspect + ch.ellipse_adjust)
                  - thickness
        rad_y2 == 2 * radius * Unit - thickness
        d == draw_segments_with_animations(
                 t2, ch.heap, rad_x2, rad_y2, t2.segs, as_mask, level_scale, thickness)
    IN  [tunnel |-> [t2 EXCEPT !.thickness = thickness], heap |-> ch.heap,
         raised |-> d.raised, arcs |-> d.arcs, calls |-> ch.calls \o d.calls]

\* Tunnel.display(level_scale, as_mask, dc_agg) on tunnel t with the Animation
\* objects h: the tunnel and the objects afterwards, and what was drawn
display(t, h, level_scale, as_mask) ==
    LET t1 == clamp_offsets(t)
        ch == update_channels(t1.anims, 1,
                  [heap |-> h, rot_adjust |-> 0, ellipse_adjust |-> 0, calls |-> <<>>])
        t2 == rotate(t1, ch.rot_adjust)
        radius == PyInt(MAX_RAD_MULT * max_radius * t2.radius, Unit)
        thickness == t2.thickness * thickness_scale
        rad_x2 == 2 * radius * MAX_ELLIPSE_ASPECT * (t2.ellipse_aspect + ch.ellipse_adjust)
                  - thickness
        rad_y2 == 2 * radius * Unit - thickness
        d == draw_segments_with_animations(
                 t2, ch.heap, rad_x2, rad_y2, t2.segs, as_mask, level_scale, thickness)
    IN  [tunnel |-> t2, heap |-> ch.heap, raised |-> d.raised, arcs |-> d.arcs,
         calls |-> ch.calls \o d.calls]

\* the values a caller passes as level_scale: int in [0, 255]
LevelScales == {128, 255}

\* one render call on tunnel b
Display(b, level_scale, as_mask) ==
    /\ b \in 1..Len(tunnels)
    /\ \E r \in {display(tunnels[b], heap, level_scale, as_mask)} :
           /\ tunnels' = [tunnels EXCEPT ![b] = r.tunnel]
           /\ heap' = r.heap
           /\ dc_agg' = r.arcs
           /\ frame' = [beam |-> b, look |-> 0, level_scale |-> level_scale,
                        as_mask |-> as_mask, raised |-> r.raised, calls |-> r.calls]
    /\ UNCHANGED <<log, mixing>>

(* ------------------------- changes between frames --------------------- *)

\* UiModelProperty.__set__: setattr(obj.model, self.attribute, val), the model
\* being tunnel b (TunnelUI's rot_speed ... blacking properties)
UiModelProperty_set(b, attribute, val) ==
    /\ b \in 1..Len(tunnels)
    /\ tunnels' = [tunnels EXCEPT ![b][attribute] = val]
    /\ BetweenFrames
    /\ UNCHANGED mixing
    /\ UNCHANGED <<heap, log>>

\* TunnelUI.nudge_x_pos: nudge the beam in the +x direction
nudge_x_pos(b) ==
    /\ b \in 1..Len(tunnels)
    /\ tunnels[b].x_offset + x_nudge <= max_x_offset + MaxNudges * x_nudge
    /\ tunnels' = [tunnels EXCEPT ![b].x_offset = @ + x_nudge]
    /\ BetweenFrames
    /\ UNCHANGED mixing
    /\ UNCHANGED <<heap, log>>

\* TunnelUI.nudge_x_neg: nudge the beam in the -x direction
nudge_x_neg(b) ==
    /\ b \in 1..Len(tunnels)
    /\ tunnels[b].x_offset - x_nudge >= -(max_x_offset + MaxNudges * x_nudge)
    /\ tunnels' = [tunnels EXCEPT ![b].x_offset = @ - x_nudge]
    /\ BetweenFrames
    /\ UNCHANGED mixing
    /\ UNCHANGED <<heap, log>>

\* TunnelUI.nudge_y_pos: nudge the beam in the +y direction
nudge_y_pos(b) ==
    /\ b \in 1..Len(tunnels)
    /\ tunnels[b].y_offset + y_nudge <= max_y_offset + MaxNudges * y_nudge
    /\ tunnels' = [tunnels EXCEPT ![b].y_offset = @ + y_nudge]
    /\ BetweenFrames
    /\ UNCHANGED mixing
    /\ UNCHANGED <<heap, log>>

\* TunnelUI.nudge_y_neg: nudge the beam in the -y direction
nudge_y_neg(b) ==
    /\ b \in 1..Len(tunnels)
    /\ tunnels[b].y_offset - y_nudge >= -(max_y_offset + MaxNudges * y_nudge)
    /\ tunnels' = [tunnels EXCEPT ![b].y_offset = @ - y_nudge]
    /\ BetweenFrames
    /\ UNCHANGED mixing
    /\ UNCHANGED <<heap, log>>

\* TunnelUI.reset_beam_position: reset the beam to center
reset_beam_position(b) ==
    /\ b \in 1..Len(tunnels)
    /\ tunnels' = [tunnels EXCEPT ![b].x_offset = 0, ![b].y_offset = 0]
    /\ BetweenFrames
    /\ UNCHANGED mixing
    /\ UNCHANGED <<heap, log>>

\* Tunnel.get_animation(anim): the Animation object in a slot
get_animation(b, anim) == tunnels[b].anims[anim]

\* Tunnel.get_current_animation
get_current_animation(b) == get_animation(b, tunnels[b].curr_anim)

\* the owner selects which slot is the current animation (Beam.curr_anim)
select_animation(b, anim) ==
    /\ b \in 1..Len(tunnels)
    /\ anim \in 1..n_anim
    /\ tunnels' = [tunnels EXCEPT ![b].curr_anim = anim]
    /\ BetweenFrames
    /\ UNCHANGED mixing
    /\ UNCHANGED <<heap, log>>

\* Tunnel.replace_current_animation(new_anim): new_anim is an Animation object
\* that exists already, or (id Len(heap) + 1) one constructed for the call
replace_current_animation(b, new_anim) ==
    /\ b \in 1..Len(tunnels)
    /\ new_anim \in 1..(Len(heap) + 1)
    /\ new_anim <= MaxAnims
    /\ heap' = IF new_anim > Len(heap) THEN Append(heap, Animation) ELSE heap
    /\ tunnels' = [tunnels EXCEPT ![b].anims[tunnels[b].curr_anim] = new_anim]
    /\ BetweenFrames
    /\ UNCHANGED mixing
    /\ UNCHANGED log

\* the owner reassigns an attribute (target, speed, weight) of the current
\* animation of tunnel b, in place
set_animation(b, attribute, val) ==
    /\ b \in 1..Len(tunnels)
    /\ heap' = [heap EXCEPT ![get_current_animation(b)][attribute] = val]
    /\ BetweenFrames
    /\ UNCHANGED mixing
    /\ UNCHANGED <<tunnels, log>>

RECURSIVE first_slot(_, _, _)
\* the first slot at or after k that holds object a
first_slot(slots, a, k) == IF slots[k] = a THEN k ELSE first_slot(slots, a, k + 1)

\* the slots that hold an object no earlier slot holds
first_slots(slots) == {k \in 1..Len(slots) : first_slot(slots, slots[k], 1) = k}

\* deepcopy of the slot list: one new object per distinct object, numbered
\* from base + 1 in the order of the slots, shared slots staying shared
copied_slots(slots, base) ==
    <<>> \o [k \in 1..Len(slots) |->
                base + Cardinality({j \in first_slots(slots) :
                                       j <= first_slot(slots, slots[k], 1)})]

\* Tunnel.copy: use deep_copy to recursively copy this Tunnel
copy(b) ==
    /\ b \in 1..Len(tunnels)
    /\ Len(tunnels) < MaxTunnels
    /\ LET slots == tunnels[b].anims
           firsts == first_slots(slots)
           n == Cardinality(firsts)
           new == copied_slots(slots, Len(heap))
       IN  /\ Len(heap) + n <= MaxAnims
           /\ heap' = heap \o
                  [i \in 1..n |->
                      heap[slots[CHOOSE k \in firsts : new[k] = Len(heap) + i]]]
           /\ tunnels' = Append(tunnels, [tunnels[b] EXCEPT !.anims = new])
    /\ BetweenFrames
    /\ UNCHANGED mixing
    /\ UNCHANGED log

(* ----------------------------- Mixer, Look ---------------------------- *)

\* layers of the mixer
n_layers == 2

\* a beam held by a layer: a Tunnel object or a Look object
TunnelBeam(b) == [kind |-> "Tunnel", id |-> b]

LookBeam(j) == [kind |-> "Look", id |-> j]

\* a mixer layer: its beam, its level (int in [0, 255]) and its mask flag
MixerLayer(beam) == [beam |-> beam, level |-> 0, mask |-> FALSE]

\* all the objects, as the copying operations take and return them
Objects == [tunnels |-> tunnels, heap |-> heap, layers |-> layers, looks |-> looks]

\* Tunnel.copy among the objects st: the copy is added as the last tunnel
Tunnel_copy(st, b) ==
    LET slots == st.tunnels[b].anims
        firsts == first_slots(slots)
        n == Cardinality(firsts)
        new == copied_slots(slots, Len(st.heap))
    IN  [st EXCEPT
            !.heap = @ \o
                [i \in 1..n |->
                    st.heap[slots[CHOOSE k \in firsts : new[k] = Len(st.heap) + i]]],
            !.tunnels = Append(@, [st.tunnels[b] EXCEPT !.anims = new])]

RECURSIVE copy_layers(_, _, _, _)
RECURSIVE MixerLayer_copy(_, _)
RECURSIVE Look_init(_, _)

\* a layer's beam copied by its own copy method: the objects afterwards and
\* the copy
Beam_copy(st, beam) ==
    IF beam.kind = "Tunnel"
    THEN LET r == Tunnel_copy(st, beam.id)
         IN  [st |-> r, beam |-> TunnelBeam(Len(r.tunnels))]
    ELSE LET r == Look_init(st, st.looks[beam.id])
         IN  [st |-> r.st, beam |-> LookBeam(r.id)]

\* the copy of layer object l: a new layer object holding a copy of the beam,
\* at the same level and mask state
MixerLayer_copy(st, l) ==
    LET r == Beam_copy(st, st.layers[l].beam)
    IN  [st |-> [r.st EXCEPT !.layers = Append(@, [st.layers[l] EXCEPT !.beam = r.beam])],
         id |-> Len(r.st.layers) + 1]

\* [layer.copy() for layer in layers], from position k on
copy_layers(st, ids, k, acc) ==
    IF k > Len(ids)
    THEN [st |-> st, ids |-> acc]
    ELSE LET r == MixerLayer_copy(st, ids[k])
         IN  copy_layers(r.st, ids, k + 1, Append(acc, r.id))

\* Look.__init__ taking the layers without copying them
Look_sharing(st, ids) ==
    [st |-> [st EXCEPT !.looks = Append(@, ids)], id |-> Len(st.looks) + 1, layers |-> ids]

\* Look(layers): construct a new look from the contents of a mixer; this
\* constructor copies everything handed to it.  The objects afterwards, the
\* new Look object and its layer list.
Look_init(st, ids) ==
    LET r == copy_layers(st, ids, 1, <<>>)
    IN  [st |-> [r.st EXCEPT !.looks = Append(@, r.ids)],
         id |-> Len(r.st.looks) + 1,
         layers |-> r.ids]

\* Look.copy: return a copy of this look
Look_copy(st, j) == Look_init(st, st.looks[j])

\* the objects st exist, within the number of copies allowed for
Fits(st) ==
    /\ Len(st.layers) <= n_layers * (MaxCopies + 1)
    /\ Len(st.tunnels) <= n_layers * (MaxCopies + 1)

\* the objects st become the objects of the program
Becomes(st) ==
    /\ tunnels' = st.tunnels
    /\ heap' = st.heap
    /\ layers' = st.layers
    /\ looks' = st.looks

\* Mixer.get_beam_from_layer
get_beam_from_layer(layer) == layers[mixer[layer]].beam

\* Mixer.get_copy_of_current_look: return a frozen copy of the entire current
\* look; the caller keeps the Look object
get_copy_of_current_look ==
    /\ \E r \in {Look_init(Objects, mixer)} : Fits(r.st) /\ Becomes(r.st)
    /\ BetweenFrames
    /\ UNCHANGED <<mixer, log>>

\* Mixer.set_look(look): unload a look into the mixer state, clobbering
\* current state.  self.layers = look.copy().layers: the copy's layer list is
\* kept and the Look object made for it is dropped.
set_look(look) ==
    /\ look \in 1..Len(looks)
    /\ \E r \in {Look_copy(Objects, look)} :
           /\ Fits(r.st)
           /\ Becomes([r.st EXCEPT !.looks = SubSeq(@, 1, Len(@) - 1)])
           /\ mixer' = r.layers
    /\ BetweenFrames
    /\ UNCHANGED log

\* Mixer.put_beam_in_layer(layer, beam): replace the beam in numbered layer
\* with this beam, among the objects st the beam was made in
put_beam_in_layer(st, layer, beam) ==
    /\ layer \in 1..Len(mixer)
    /\ Fits(st)
    /\ Becomes([st EXCEPT !.layers[mixer[layer]].beam = beam])
    /\ BetweenFrames
    /\ UNCHANGED <<mixer, log>>

\* a copy of a stored look is put in a layer
put_look_copy(layer, look) ==
    /\ look \in 1..Len(looks)
    /\ \E r \in {Look_copy(Objects, look)} :
           put_beam_in_layer(r.st, layer, LookBeam(r.id))

\* Mixer.set_level(layer, level)
set_level(layer, level) ==
    /\ layer \in 1..Len(mixer)
    /\ layers' = [layers EXCEPT ![mixer[layer]].level = level]
    /\ BetweenFrames
    /\ UNCHANGED <<tunnels, heap, log, mixer, looks>>

\* Mixer.toggle_mask_state(layer)
toggle_mask_state(layer) ==
    /\ layer \in 1..Len(mixer)
    /\ layers' = [layers EXCEPT ![mixer[layer]].mask = ~@]
    /\ BetweenFrames
    /\ UNCHANGED <<tunnels, heap, log, mixer, looks>>

RECURSIVE Look_display(_, _, _, _)
\* Look.display(level_scale, as_mask) on the layer list ids, from position k
\* on: the display calls made on the beams of these layers, in order, and the
\* exception raised (or "none").  The arguments of layer.beam.display are evaluated before the call:
\* `as_mask or level.mask` reads an attribute of the int level unless as_mask
\* is true, and the call passes two arguments where Tunnel.display takes
\* three (level_scale, as_mask, dc_agg).
Look_display(ids, k, level_scale, as_mask) ==
    IF k > Len(ids)
    THEN [raised |-> "none", calls |-> <<>>]
    ELSE LET layer == layers[ids[k]]
             level == layer.level
             scaled_level == (level_scale * level) \div 255
             call == <<"display", layer.beam, scaled_level, TRUE>>
         IN  IF level = 0
             THEN Look_display(ids, k + 1, level_scale, as_mask)
             ELSE IF ~as_mask
             THEN [raised |-> "AttributeError", calls |-> <<>>]
             ELSE IF layer.beam.kind = "Tunnel"
             THEN [raised |-> "TypeError", calls |-> <<call>>]
             ELSE LET r == Look_display(looks[layer.beam.id], 1, scaled_level, TRUE)
                      rest == Look_display(ids, k + 1, level_scale, as_mask)
                  IN  IF r.raised # "none"
                      THEN [raised |-> r.raised, calls |-> <<call>>]
                      ELSE [raised |-> rest.raised, calls |-> <<call>> \o rest.calls]

\* one render call on Look object look
DisplayLook(look, level_scale, as_mask) ==
    /\ look \in 1..Len(looks)
    /\ LET r == Look_display(looks[look], 1, level_scale, as_mask)
       IN  frame' = [beam |-> 0, look |-> look, level_scale |-> level_scale,
                     as_mask |-> as_mask, raised |-> r.raised, calls |-> r.calls]
    /\ dc_agg' = <<>>
    /\ UNCHANGED <<tunnels, heap, log, mixing>>

(* --------------------------- specifications --------------------------- *)

\* segment count and blacking are set between render calls of the tunnel
NextSegments ==
    \/ \E v \in 0..MaxSegs : UiModelProperty_set(1, "segs", v)
    \/ \E v \in (-MaxBlacking)..MaxBlacking : UiModelProperty_set(1, "blacking", v)
    \/ \E l \in LevelScales, m \in BOOLEAN : Display(1, l, m)

SpecSegments == Init /\ [][NextSegments]_vars

\* the constructed tunnel with its segment count set to 3 and its beam nudged
\* by x0, y0 before the first frame
Placed(x0, y0) ==
    /\ tunnels = <<[Tunnel(1) EXCEPT !.segs = 3, !.x_offset = x0, !.y_offset = y0]>>
    /\ heap = [k \in 1..n_anim |-> Animation]
    /\ dc_agg = <<>>
    /\ frame = NoFrame
    /\ log = <<>>
    /\ NoMixer

InitOffsets == Placed(0, 0)

\* the beam is nudged and reset between render calls
NextOffsets ==
    \/ nudge_x_pos(1)
    \/ nudge_x_neg(1)
    \/ nudge_y_pos(1)
    \/ nudge_y_neg(1)
    \/ reset_beam_position(1)
    \/ \E l \in LevelScales, m \in BOOLEAN : Display(1, l, m)

SpecOffsets == InitOffsets /\ [][NextOffsets]_vars

\* the weight the position channels are given
PositionWeight == 22

InitCenter == Placed(-x_nudge, y_nudge)

\* the first two slots are routed to the beam position and set running
NextCenter ==
    \/ \E k \in 1..2 : select_animation(1, k)
    \/ \E target \in {"PositionX", "PositionY"} : set_animation(1, "target", target)
    \/ set_animation(1, "weight", PositionWeight)
    \/ set_animation(1, "speed", 1)
    \/ \E l \in LevelScales, m \in BOOLEAN : Display(1, l, m)

SpecCenter == InitCenter /\ [][NextCenter]_vars

\* the slowest reverse rotation speed that still turns the tunnel each frame
SlowReverse == -((Unit \div rot_speed_scale) + 1)

\* the attributes TunnelUI sets, and the values it is given for each
Attributes ==
    {"rot_speed", "thickness", "radius", "ellipse_aspect", "col_center",
     "col_width", "col_spread", "col_sat", "segs", "blacking"}

AttributeValues(attribute) ==
    CASE attribute = "rot_speed" -> {0, SlowReverse}
      [] attribute = "ellipse_aspect" -> {-Unit, Unit \div 2}
      [] attribute = "segs" -> {0, 3}
      [] attribute = "blacking" -> {-1, 2}
      [] attribute = "thickness" -> {Unit \div 4, Unit}
      [] attribute = "radius" -> {Unit \div 2, Unit}
      [] OTHER -> {0, Unit}

\* how many edits are in place: the attributes of tunnel t that differ from
\* the tunnel as first placed, its slots that hold another object than the one
\* constructed for them, the attributes of the Animation objects that differ
\* from a constructed one, and the Animation objects constructed since
Edited(t, h) ==
    Cardinality({a \in (DOMAIN t) \ {"anims"} : t[a] # [Tunnel(1) EXCEPT !.segs = 3][a]})
    + Cardinality({k \in 1..n_anim : t.anims[k] # k})
    + Cardinality({p \in (1..Len(h)) \X (DOMAIN Animation) : h[p[1]][p[2]] # Animation[p[2]]})
    + (Len(h) - n_anim)

\* the step leaves at most MaxEdited edits in place
WithinEdits == Edited(tunnels'[1], heap') <= MaxEdited

\* every change the owner of one tunnel can make between its render calls
Next ==
    \/ \E a \in Attributes : \E v \in AttributeValues(a) :
           UiModelProperty_set(1, a, v) /\ WithinEdits
    \/ nudge_x_pos(1) /\ WithinEdits
    \/ nudge_x_neg(1) /\ WithinEdits
    \/ nudge_y_pos(1) /\ WithinEdits
    \/ nudge_y_neg(1) /\ WithinEdits
    \/ reset_beam_position(1)
    \/ \E k \in 1..2 : select_animation(1, k) /\ WithinEdits
    \/ \E a \in {2, Len(heap) + 1} : replace_current_animation(1, a) /\ WithinEdits
    \/ \E target \in {"Radius", "Color", "PositionX", UnrecognizedTarget} :
           set_animation(1, "target", target) /\ WithinEdits
    \/ \E w \in {0, PositionWeight} : set_animation(1, "weight", w) /\ WithinEdits
    \/ \E v \in {0, 1} : set_animation(1, "speed", v) /\ WithinEdits
    \/ \E l \in LevelScales, m \in BOOLEAN : Display(1, l, m)

Spec == InitOffsets /\ [][Next]_vars

\* the rotation speed is set, and the first slot is routed to the rotation and
\* set running, between render calls
NextAngle ==
    \/ \E v \in {-(Unit \div 10), 0, Unit} : UiModelProperty_set(1, "rot_speed", v)
    \/ set_animation(1, "target", "Rotation")
    \/ set_animation(1, "weight", 1)
    \/ set_animation(1, "speed", 1)
    \/ \E l \in LevelScales, m \in BOOLEAN : Display(1, l, m)

SpecAngle == InitOffsets /\ [][NextAngle]_vars

\* the Animation objects handed to replace_current_animation for tunnel b: the
\* one in its second slot, the one in the first tunnel's first slot, or one
\* constructed for the call
NewAnims(b) == {get_animation(b, 2), get_animation(1, 1), Len(heap) + 1}

\* channels are selected, replaced and set running, and the tunnel is copied,
\* between the render calls of the tunnel and of its copies
NextAnims ==
    \/ \E b \in 1..Len(tunnels), k \in 1..2 : select_animation(b, k)
    \/ \E b \in 1..Len(tunnels) : \E a \in NewAnims(b) : replace_current_animation(b, a)
    \/ copy(1)
    \/ \E b \in 1..Len(tunnels), l \in LevelScales, m \in BOOLEAN : Display(b, l, m)

SpecAnims == InitOffsets /\ [][NextAnims]_vars

\* a mixer of n_layers layers, every layer holding a tunnel of its own
InitMixer ==
    /\ tunnels = [b \in 1..n_layers |-> [Tunnel((b - 1) * n_anim + 1) EXCEPT !.segs = 3]]
    /\ heap = [k \in 1..(n_layers * n_anim) |-> Animation]
    /\ layers = [l \in 1..n_layers |-> MixerLayer(TunnelBeam(l))]
    /\ mixer = [l \in 1..n_layers |-> l]
    /\ looks = <<>>
    /\ dc_agg = <<>>
    /\ frame = NoFrame
    /\ log = <<>>

\* the tunnels a user of the mixer or of a look reaches as the beam of its
\* first layer
FirstBeams ==
    {layers[ids[1]].beam.id :
        ids \in {h \in {mixer} \cup {looks[j] : j \in 1..Len(looks)} :
                    layers[h[1]].beam.kind = "Tunnel"}}

\* the mixer is played (a level, a look put in a layer), looks are taken of it
\* and installed in it, and the tunnel in the first layer of the mixer or of
\* a look is set rotating and rendered
NextMixer ==
    \/ \E v \in {0, 255} : set_level(1, v)
    \/ \E j \in 1..Len(looks) : put_look_copy(n_layers, j)
    \/ get_copy_of_current_look
    \/ \E j \in 1..Len(looks) : set_look(j)
    \/ \E b \in FirstBeams : UiModelProperty_set(b, "rot_speed", SlowReverse)
    \/ \E b \in FirstBeams : Display(b, 255, FALSE)

SpecMixer == InitMixer /\ [][NextMixer]_vars

\* levels and mask states are set, looks are put in the second layer, looks
\* are taken of the mixer, and the looks are rendered
NextLooks ==
    \/ \E l \in 1..n_layers, v \in {0, 128} : set_level(l, v)
    \/ toggle_mask_state(n_layers)
    \/ \E j \in 1..Len(looks) : put_look_copy(n_layers, j)
    \/ get_copy_of_current_look
    \/ \E j \in 1..Len(looks), l \in LevelScales, m \in BOOLEAN : DisplayLook(j, l, m)

SpecLooks == InitMixer /\ [][NextLooks]_vars

(* ------------------------------ properties ---------------------------- *)

\* a render call has just run
Rendered == frame.beam # 0

\* the tunnel the render call that has just run was made on
Beam == tunnels[frame.beam]

\* the number of the segment an arc was drawn for, from its start angle
SegOf(c) == (c.start_angle.num - Beam.curr_angle * Beam.segs) \div TWOPI

\* the segment numbers the aggregator received arcs for
DrawnSegs == {SegOf(dc_agg[k]) : k \in 1..Len(dc_agg)}

\* the segment numbers the blacking rule selects among segment_count segments
SelectedBy(blacking, segment_count) ==
    {i \in 0..(segment_count - 1) :
        IF blacking >= 0 THEN i % Max(blacking, 1) = 0
        ELSE IF blacking = -1 THEN TRUE
        ELSE i % Abs(blacking) # 0}

\* C1: after a render call with segment_count >= 1, the segments arcs were
\* emitted for are exactly those with i mod max(blacking,1) = 0 when blacking
\* >= 0, all of them when blacking = -1, and those with i mod |blacking| # 0
\* when blacking <= -2.
C1_SelectedSegments ==
    (Rendered /\ Beam.segs >= 1) =>
        DrawnSegs = SelectedBy(Beam.blacking, Beam.segs)

\* C1 witness: the render of 9 segments with blacking -3 drew {1,2,4,5,7,8}
C1_Witness ==
    /\ Rendered
    /\ Beam.segs = 9 /\ Beam.blacking = -3
    /\ DrawnSegs = {1, 2, 4, 5, 7, 8}

\* C2: a render call never raises a division fault, whatever the segment
\* count (0 included) and the blacking value.
C2_NoDivisionFault == Rendered => frame.raised # "ZeroDivisionError"

\* C7: a render call makes one draw_arc call per selected segment and none for
\* an unselected one, in ascending segment order, in mask and non-mask mode;
\* the number of calls is between 0 and segment_count and is 0 exactly when
\* the blacking rule selects no segment.
C7_OneArcPerSelectedSegment ==
    Rendered =>
        LET sel == SelectedBy(Beam.blacking, Beam.segs)
            n == Len(dc_agg)
        IN  /\ n = Cardinality(sel)
            /\ DrawnSegs = sel
            /\ \A j, k \in 1..n : j < k => SegOf(dc_agg[j]) < SegOf(dc_agg[k])
            /\ 0 <= n /\ n <= Beam.segs
            /\ (n = 0) <=> (sel = {})

\* C7 witness: a mask render of a single segment with blacking <= -2 completed
\* and made no draw_arc call
C7_Witness ==
    /\ Rendered /\ frame.raised = "none"
    /\ Beam.segs = 1 /\ Beam.blacking <= -2 /\ frame.as_mask /\ dc_agg = <<>>

\* the accumulated position adjustment of the rendered tunnel, times 127:
\* the samples of its channels targeting `target`, each times half the size
AdjustNum(target, size) ==
    adjust(Beam.anims, heap, target, 1) * (size \div 2)

\* C5: immediately after every render call, whatever nudges and resets came
\* before it, x_offset is in [-max_x_offset, max_x_offset], y_offset is in
\* [-max_y_offset, max_y_offset], and the centre of the frame's arcs is
\* computed from these clamped offsets.
C5_OffsetsClamped ==
    Rendered =>
        /\ -max_x_offset <= Beam.x_offset /\ Beam.x_offset <= max_x_offset
        /\ -max_y_offset <= Beam.y_offset /\ Beam.y_offset <= max_y_offset
        /\ \A k \in 1..Len(dc_agg) :
              /\ dc_agg[k].x_center - x_center - PyInt(AdjustNum("PositionX", x_size), 127)
                     = Beam.x_offset
              /\ dc_agg[k].y_center - y_center - PyInt(AdjustNum("PositionY", y_size), 127)
                     = Beam.y_offset

\* C5 witness: a render call left x_offset at the bound, a value no sequence
\* of nudges from the centre gives, and drew its arcs there
C5_Witness ==
    /\ Rendered /\ dc_agg # <<>>
    /\ Beam.x_offset = -max_x_offset
    /\ x_nudge * (max_x_offset \div x_nudge) # max_x_offset
    /\ dc_agg[1].x_center = x_center - max_x_offset

\* C10 as stated: the centre of every arc is x_center + x_offset +
\* round(x_adjust) and y_center + y_offset + round(y_adjust).
C10_CenterRounded ==
    Rendered =>
        \A k \in 1..Len(dc_agg) :
            /\ dc_agg[k].x_center
                   = x_center + Beam.x_offset + PyRound(AdjustNum("PositionX", x_size), 127)
            /\ dc_agg[k].y_center
                   = y_center + Beam.y_offset + PyRound(AdjustNum("PositionY", y_size), 127)

\* C10 amended: the centre of every arc is x_center + x_offset + int(x_adjust)
\* and y_center + y_offset + int(y_adjust), the accumulated adjustment being
\* truncated toward zero, for positive and negative adjustments alike.
C10_CenterTruncated ==
    Rendered =>
        \A k \in 1..Len(dc_agg) :
            /\ dc_agg[k].x_center
                   = x_center + Beam.x_offset + PyInt(AdjustNum("PositionX", x_size), 127)
            /\ dc_agg[k].y_center
                   = y_center + Beam.y_offset + PyInt(AdjustNum("PositionY", y_size), 127)

\* C10 witness: arcs were drawn with a negative x adjustment that is not a
\* whole number, at the centre truncation gives and rounding does not
C10_Witness ==
    /\ Rendered /\ dc_agg # <<>>
    /\ AdjustNum("PositionX", x_size) < 0
    /\ AdjustNum("PositionX", x_size) % 127 # 0
    /\ PyInt(AdjustNum("PositionX", x_size), 127) # PyRound(AdjustNum("PositionX", x_size), 127)
    /\ dc_agg[1].x_center
           = x_center + Beam.x_offset + PyInt(AdjustNum("PositionX", x_size), 127)

\* the arcs a render call of tunnel b would hand to the aggregator now
ArcsOf(b, level_scale, as_mask) == display(tunnels[b], heap, level_scale, as_mask).arcs

\* C6: in mask mode every arc of a render call has level 255, hue 0,
\* saturation 0 and value 0, so two render calls from the same tunnel state
\* that differ only in level_scale emit identical arc sequences.
C6_MaskIgnoresLevelScale ==
    /\ (Rendered /\ frame.as_mask) =>
           \A k \in 1..Len(dc_agg) :
               /\ dc_agg[k].level = 255
               /\ dc_agg[k].hue = 0
               /\ dc_agg[k].sat = 0
               /\ dc_agg[k].val = 0
    /\ \A b \in 1..Len(tunnels) : \A l1, l2 \in LevelScales :
           ArcsOf(b, l1, TRUE) = ArcsOf(b, l2, TRUE)

\* C6 witness: a mask render at less than full level of a tunnel whose colour
\* saturation is set drew arcs, and the same render without the mask would
\* have differed with the level
C6_Witness ==
    /\ Rendered /\ frame.as_mask /\ frame.level_scale < 255
    /\ dc_agg # <<>>
    /\ Beam.col_sat # 0
    /\ \E l1, l2 \in LevelScales :
           ArcsOf(frame.beam, l1, FALSE) # ArcsOf(frame.beam, l2, FALSE)

\* the tunnel attributes a render call must leave as they are
FrameFixed(t) ==
    [a \in (DOMAIN t) \ {"curr_angle", "x_offset", "y_offset"} |-> t[a]]

\* C9: a render call changes only curr_angle, x_offset, y_offset and the
\* internal state of the animation channels: the other attributes of the
\* tunnel, its slot-to-channel assignment and every channel's target are the
\* same after the call as before it.
C9_FrameEffect ==
    [][(frame'.beam # 0) =>
          /\ Len(tunnels') = Len(tunnels)
          /\ \A b \in 1..Len(tunnels) :
                 IF b = frame'.beam
                 THEN FrameFixed(tunnels'[b]) = FrameFixed(tunnels[b])
                 ELSE tunnels'[b] = tunnels[b]
          /\ Len(heap') = Len(heap)
          /\ \A a \in 1..Len(heap) :
                 [heap'[a] EXCEPT !.phase = 0] = [heap[a] EXCEPT !.phase = 0]
          /\ log' = log]_vars

\* C9 witness: a render call has run on a tunnel whose rotation speed was set
\* and has moved its angle
C9_Witness ==
    /\ Rendered
    /\ Beam.rot_speed # 0
    /\ Beam.curr_angle # 0

\* C4: starting from curr_angle = 0, after any number of render calls with
\* any rotation speed and any Rotation-targeted contributions, curr_angle is
\* in [0, 2*pi).
C4_AngleInRange ==
    \A b \in 1..Len(tunnels) :
        0 <= tunnels[b].curr_angle /\ tunnels[b].curr_angle < TWOPI

\* C3: a render call of a tunnel with a slot whose target is not one of the
\* recognized routing targets reports a configuration error.
C3_UnrecognizedTargetReported ==
    (Rendered /\ \E k \in 1..n_anim : heap[Beam.anims[k]].target \notin RecognizedTargets)
        => log # <<>>

\* the positions in the frame's calls of the calls of one kind, ascending
CallsOf(kinds) == SelectSeq(frame.calls, LAMBDA c : c[1] \in kinds)

\* whether call c samples a channel for a per-segment target
PerSegmentSample(c) ==
    /\ c[1] \in {"get_value", "get_value_vector"}
    /\ heap[c[2]].target \notin {"Rotation", "Ellipse"}

\* every advance of the frame comes before every per-segment sample
AdvancesFirst ==
    \A i, j \in 1..Len(frame.calls) :
        (frame.calls[i][1] = "update_state" /\ PerSegmentSample(frame.calls[j])) => i < j

Stored == {j \in 1..Len(looks) : \A l \in 1..Len(layers) : layers[l].beam # LookBeam(j)}

RECURSIVE held_by(_)
\* the objects reached from the layer list ids: the layer objects, their beams,
\* the Animation objects of the tunnels and what the looks among the beams hold
held_by(ids) ==
    UNION {LET beam == layers[ids[k]].beam
           IN  {<<"MixerLayer", ids[k]>>} \cup
               (IF beam.kind = "Tunnel"
                THEN {<<"Tunnel", beam.id>>} \cup
                     {<<"Animation", tunnels[beam.id].anims[a]>> : a \in 1..n_anim}
                ELSE {<<"Look", beam.id>>} \cup held_by(looks[beam.id]))
           : k \in 1..Len(ids)}

RECURSIVE contents(_, _)
\* the layers of the layer list ids among the objects st, by value: level,
\* mask state and beam of every layer, a tunnel with its channels and a look
\* with its own layers
contents(st, ids) ==
    [k \in 1..Len(ids) |->
        LET layer == st.layers[ids[k]]
            beam == layer.beam
        IN  [level |-> layer.level,
             mask |-> layer.mask,
             beam |-> IF beam.kind = "Tunnel"
                      THEN [tunnel |-> st.tunnels[beam.id],
                            anims |-> [a \in 1..n_anim |->
                                          st.heap[st.tunnels[beam.id].anims[a]]]]
                      ELSE [look |-> contents(st, st.looks[beam.id])]]]

\* the mixer and a look a caller holds have no object in common
NoSharedObjects ==
    \A j \in Stored : held_by(mixer) \cap held_by(looks[j]) = {}

\* a step changes the layers of the mixer or those of a look a caller holds,
\* never both
OneSideChanges ==
    \A j \in Stored :
        \/ contents(Objects', mixer') = contents(Objects, mixer)
        \/ contents(Objects', looks'[j]) = contents(Objects, looks[j])

\* C11: a Look is a frozen snapshot.  The Look returned by
\* Mixer.get_copy_of_current_look and the mixer state installed by
\* Mixer.set_look(look) share no layer or beam objects with their source, so
\* whatever mixer change, tunnel parameter change or render call is made on
\* one side, the layers held by the other side stay as they were.
C11_FrozenSnapshot == []NoSharedObjects /\ [][OneSideChanges]_vars

\* a look has been installed in the mixer, and changes made since then have
\* left the mixer's layers different from those of every look a caller holds
C11_Witness ==
    /\ Stored # {}
    /\ mixer[1] > n_layers
    /\ \A j \in Stored : contents(Objects, mixer) # contents(Objects, looks[j])

\* the look the render call that has just run was made on
RenderedLook == looks[frame.look]

RECURSIVE LayerCalls(_, _, _)
\* one display call for every layer from position k on whose level is not 0,
\* in order: on the layer's beam, at level level_scale * level / 255, with the
\* mask flag (as_mask or the layer's mask flag)
LayerCalls(k, level_scale, as_mask) ==
    IF k > Len(RenderedLook)
    THEN <<>>
    ELSE LET layer == layers[RenderedLook[k]]
         IN  (IF layer.level = 0
              THEN <<>>
              ELSE <<<<"display", layer.beam, (level_scale * layer.level) \div 255,
                       as_mask \/ layer.mask>>>>)
             \o LayerCalls(k + 1, level_scale, as_mask)

\* C12: Look.display(level_scale, as_mask) visits its layers in order and, for
\* every layer whose level is not 0, makes exactly one display call on that
\* layer's beam with level level_scale * level / 255 and mask flag (as_mask or
\* the layer's mask flag), and the call completes; a layer whose level is 0 is
\* never displayed.
C12_LayersDisplayed ==
    frame.look # 0 =>
        /\ frame.raised = "none"
        /\ frame.calls = LayerCalls(1, frame.level_scale, frame.as_mask)

====
